---- MODULE Spec2Model ----
(***************************************************************************)
(* Swap routing core of src/evm/tokens/mod.rs:                             *)
(*   - TokenContext::buy / TokenContext::sell, the hop-by-hop traversal of *)
(*     a route, with every call made on a hop (transform,                  *)
(*     initial_transfer) recorded in the order it is made;                 *)
(*   - SwapInfo::concat_path, the path merge;                              *)
(*   - SwapData::push with SwapInfo::try_new, and SwapData::to_generic.    *)
(* The single-hop transforms and the fuzzer state's caller pool are        *)
(* outside the file: their answers are inputs of the hop actions. So are   *)
(* the decoded calls handed to push.                                       *)
(***************************************************************************)
EXTENDS Integers, Sequences, FiniteSets, TLC

VARIABLES
    ctx,                \* TokenContext: [swaps, is_weth, weth_address]
    pc,                 \* "idle" | "buy" | "sell" (in the loop) | "done" | "panicked"
    op,                 \* the function called: "none" | "buy" | "sell"
    amount_in,          \* argument amount_in of the running call
    who,                \* argument `to` of buy, `src` of sell
    seed,               \* argument seed, a sequence of bytes
    path_idx,           \* index (0-based) of path_ctx in ctx.swaps
    nth,                \* loop counter of the traversal
    current_amount_in,  \* local current_amount_in
    current_sender,     \* local current_sender: None / Some(a) in buy, Some(a) in sell
    is_first,           \* local is_first of sell
    calls,              \* calls made on hops by the running call, in order
    result,             \* "Pending" | "None" | "Some" | "Panic"
    panic_msg,          \* message of the panic, "" when none
    info,               \* a SwapInfo: [ty, target, path]
    last,               \* the latest concat_path on info: <<>> or <<[before, new_path, panicked]>>
    prev,               \* the concat_path before that one, same shape
    inner,              \* SwapData.inner: a set of entries [key, value], value a SwapInfo
    pushed,             \* the latest push: <<>> or <<[n, addr, abi, before, panicked, msg]>>
    generic             \* the to_generic just called: <<>> or <<[self, map]>>, map what it returned

tokenVars == <<ctx, pc, op, amount_in, who, seed, path_idx, nth, current_amount_in,
               current_sender, is_first, calls, result, panic_msg>>
mergeVars == <<info, last, prev>>
dataVars == <<inner, pushed, generic>>
vars == <<ctx, pc, op, amount_in, who, seed, path_idx, nth, current_amount_in,
          current_sender, is_first, calls, result, panic_msg, info, last, prev,
          inner, pushed, generic>>

-----------------------------------------------------------------------------
(* Bounds of the model *)

MaxRoutes == 2
MaxHops == 2
MaxPathLen == 3
MaxNewLen == 2
MaxPushes == 3

-----------------------------------------------------------------------------
(* Values *)

\* EVMAddress::zero()
ZeroAddr == 0
\* TokenContext.weth_address
WethAddr == 1
\* counterparties of buy and sell
Users == {2}
\* what a transform that succeeds may report: <<receiver, amount_out>>
Outputs == {<<3, 7>>, <<4, 9>>}
\* the caller pool behind state.get_rand_caller()
Callers == {5, 6}
\* the pair_address of the hop at position k of route r (both 0-based)
PairAddressOf(r, k) == 100 + 10 * r + k

AmountsIn == {10}

\* seed[0] is a u8
SeedBytes == {0, 1, 2, 255}
Seeds == {<<>>} \cup {<<b>> : b \in SeedBytes} \cup {<<1, 0>>}

\* Option<T>
None == <<>>
Some(x) == <<x>>

\* 0-based indexing of a Vec
At(s, i) == s[i + 1]

\* PairContextTy: Uniswap(UniswapPairContext) | Weth(WethContext)
HopTys == {"Uniswap", "Weth"}
Hop(ty, r, k) ==
    [ty |-> ty, pair_address |-> IF ty = "Uniswap" THEN PairAddressOf(r, k) ELSE WethAddr]

\* the sequences of hop kinds of one route, and of a whole swaps list
RouteShapes == UNION {[1..n -> HopTys] : n \in 0..MaxHops}
SwapsShapes == UNION {[1..m -> RouteShapes] : m \in 0..MaxRoutes}

\* PathContext { route }, built from a shape
PathContext(shape, r) == [route |-> [k \in 1..Len(shape) |-> Hop(shape[k], r, k - 1)]]

\* TokenContext { swaps, is_weth, weth_address }
TokenContext(shapes, w) ==
    [swaps |-> [r \in 1..Len(shapes) |-> PathContext(shapes[r], r - 1)],
     is_weth |-> w,
     weth_address |-> WethAddr]

\* PairContext::transform -> Option<(EVMAddress, EVMU256)>
TransformNone == [ok |-> FALSE, receiver |-> ZeroAddr, amount |-> 0]
TransformSome(r, a) == [ok |-> TRUE, receiver |-> r, amount |-> a]
TransformResults ==
    {TransformNone} \cup {TransformSome(o[1], o[2]) : o \in Outputs}

\* a call of transform on hop h of route r, as the traversal makes it
TransformCall(r, h, pair, src, next, amount, reverse, out) ==
    [fn |-> "transform", route |-> r, hop |-> h, ty |-> pair.ty,
     pair |-> pair.pair_address, src |-> src,
     next |-> next, amount |-> amount, reverse |-> reverse,
     ok |-> out.ok, receiver |-> out.receiver, amount_out |-> out.amount]

\* a call of initial_transfer on hop h of route r
InitialTransferCall(r, h, pair, src, next, amount, ok) ==
    [fn |-> "initial_transfer", route |-> r, hop |-> h, ty |-> pair.ty,
     pair |-> pair.pair_address, src |-> src,
     next |-> next, amount |-> amount, reverse |-> FALSE,
     ok |-> ok, receiver |-> ZeroAddr, amount_out |-> 0]

-----------------------------------------------------------------------------
(* Decisions of buy and sell *)

\* (variant: the emptiness of swaps is not tested)
NoRoutes_Unchecked(swaps) == FALSE

\* `if self.swaps.is_empty() { return None; }`
NoRoutes(swaps) == Len(swaps) = 0

\* (variant: the last byte of the seed selects the route)
RouteIndex_LastByte(sd, n) == sd[Len(sd)] % n

\* `seed[0] as usize % self.swaps.len()`
RouteIndex(sd, n) == sd[1] % n

\* buy: `path_ctx.route.iter().rev().enumerate()`: the route position of the nth pair
BuyHopIndex(path_len, n) == path_len - 1 - n

\* (variant: sell walks the route from its end, as buy does)
SellHopIndex_Reversed(path_len, n) == path_len - 1 - n

\* sell: `path_ctx.route.iter().enumerate()`
SellHopIndex(path_len, n) == n

\* `let is_final = nth == path_len - 1;`
IsFinal(path_len, n) == n = path_len - 1

\* buy: `&path_ctx.route[path_len - nth - 2]`
BuyNextIndex(path_len, n) == path_len - n - 2

\* (variant: a wrap hop before the hop processed passes, its address is taken)
WethBeforeHop_Accepted(pair) == FALSE

\* buy: `PairContextTy::Weth(_) => panic!("Invalid weth context")` on route[path_len - nth - 2]
WethBeforeHop(pair) == pair.ty = "Weth"

\* (variant: every hop of buy sends to the recipient)
BuyNext_Recipient(is_final, to, pair_address) == to

\* buy: `let next = if is_final { to } else { ...pair_address }`
BuyNext(is_final, to, pair_address) == IF is_final THEN to ELSE pair_address

\* (variant: the hop itself is taken for the hop that follows)
SellNextIndex_Self(path_len, n) == n

\* sell: `&path_ctx.route[nth + 1]`
SellNextIndex(path_len, n) == n + 1

\* (variant: a wrap hop of buy sends to the recipient, whatever hop comes next)
BuyWethNext_Recipient(to, next) == to

\* buy, the Weth arm: the destination in `transform(&to, &next, amount_in, state, vm, true)`
BuyWethNext(to, next) == next

\* (variant: the wrapped-native branch of sell sends to the seller)
UnwrapDestination_Seller(src) == src

\* sell, the wrapped-native branch: the destination in
\* `transform(&src, &EVMAddress::zero(), amount_in, state, vm, false)`
UnwrapDestination(src) == ZeroAddr

\* buy: the last argument of every transform, `true`
BuyReverse == TRUE

\* (variant: sell trades in the direction of buy)
SellReverse_AsBuy == TRUE

\* sell: the last argument of every transform, `false`
SellReverse == FALSE

\* (variant: a failed initial_transfer ends the sell)
TransferAborts_OnFailure(transferred) == ~transferred

\* sell: `ctx.deref().borrow_mut().initial_transfer(..);`, a statement: what the call
\* gives back is dropped
TransferAborts(transferred) == FALSE

\* (variant: the failure of an AMM hop is not looked at)
UniswapFailed_Ignored(out) == FALSE

\* `if let Some((receiver, amount)) = ...transform(...) {..} else { return None; }`
UniswapFailed(out) == ~out.ok

\* (variant: the result of a wrap hop is dropped without `expect`)
WethFailed_Ignored(out) == FALSE

\* `.transform(...).expect("Weth failed")`
WethFailed(out) == ~out.ok

\* (variant: the wrapped-native branch takes whatever pair it finds)
IsWethPair_AnyPair(pair) == TRUE

\* the wrapped-native branch: `if let PairContextTy::Weth(ctx) = &self.swaps[0].route[0]`
IsWethPair(pair) == pair.ty = "Weth"

\* (variant: a transform rewrites the address of the pair contexts it is called on)
AfterCalls_MovesPairs(c) ==
    [c EXCEPT !.swaps =
        [r \in DOMAIN c.swaps |->
            [route |-> [k \in DOMAIN c.swaps[r].route |->
                          [c.swaps[r].route[k] EXCEPT !.pair_address = ZeroAddr]]]]]

\* the TokenContext after the calls of buy or sell: both take `&self`, and the pair
\* contexts they borrow mutably for transform and initial_transfer keep their kind
\* and their address
AfterCalls(c) == c

\* (variant: `path_len - 1` is computed once, before the loop)
IsFinalOverflows_BeforeLoop(path_len) == path_len = 0

\* whether the usize subtraction of `let is_final = nth == path_len - 1;` overflows on
\* a route without hops: it is the first statement of the loop body, and a route
\* without hops has no pass
IsFinalOverflows(path_len) == FALSE

-----------------------------------------------------------------------------
(* Ends of a call *)

Idle ==
    /\ pc = "idle"
    /\ op = "none"
    /\ amount_in = 0
    /\ who = ZeroAddr
    /\ seed = <<>>
    /\ path_idx = 0
    /\ nth = 0
    /\ current_amount_in = 0
    /\ current_sender = None
    /\ is_first = FALSE
    /\ calls = <<>>
    /\ result = "Pending"
    /\ panic_msg = ""

\* the call returns res, having made the calls cs
Returns(res, cs) ==
    /\ pc' = "done"
    /\ result' = res
    /\ panic_msg' = ""
    /\ calls' = cs

\* the call panics with msg, having made the calls cs
Panics(msg, cs) ==
    /\ pc' = "panicked"
    /\ result' = "Panic"
    /\ panic_msg' = msg
    /\ calls' = cs

\* the locals of the traversal after a step
Locals(p, n, amt, sender, first) ==
    /\ path_idx' = p
    /\ nth' = n
    /\ current_amount_in' = amt
    /\ current_sender' = sender
    /\ is_first' = first

\* the loop goes on to the next pair, having made the calls cs
Continues(cs) ==
    /\ pc' = pc
    /\ result' = result
    /\ panic_msg' = panic_msg
    /\ calls' = cs

\* (variant: the loop does not end after the last pair)
EndOfBody_NeverEnds(path_len, n, cs) == Continues(cs)

\* after the body of the loop ran for the pair at counter n: the loop ends after the
\* last pair, and the function returns Some(())
EndOfBody(path_len, n, cs) ==
    IF n + 1 >= path_len THEN Returns("Some", cs) ELSE Continues(cs)

-----------------------------------------------------------------------------
(* TokenContext::buy *)

\* The call up to the first pair of the loop: the wrapped-native branch as a whole,
\* the empty swaps list, the route selection.
Buy(a, to, sd) ==
    /\ pc = "idle"
    /\ op' = "buy"
    /\ amount_in' = a
    /\ who' = to
    /\ seed' = sd
    /\ ctx' = AfterCalls(ctx)
    /\ UNCHANGED <<info, last, prev, inner, pushed, generic>>
    /\ IF ctx.is_weth
       THEN /\ Locals(0, 0, 0, None, FALSE)
            /\ IF Len(ctx.swaps) = 0 \/ Len(At(ctx.swaps, 0).route) = 0
               THEN Panics("index out of bounds", <<>>)
               ELSE LET pair == At(At(ctx.swaps, 0).route, 0) IN
                    IF IsWethPair(pair)
                    THEN \E out \in TransformResults :
                            Returns("Some",
                                    <<TransformCall(0, 0, pair, to, to, a, BuyReverse, out)>>)
                    ELSE Panics("Invalid weth context", <<>>)
       ELSE IF NoRoutes(ctx.swaps)
       THEN /\ Locals(0, 0, 0, None, FALSE)
            /\ Returns("None", <<>>)
       ELSE IF Len(sd) = 0
       THEN /\ Locals(0, 0, a, None, FALSE)
            /\ Panics("index out of bounds", <<>>)
       ELSE IF Len(ctx.swaps) = 0   \* `% 0` panics; not reached past the emptiness test
       THEN /\ Locals(0, 0, a, None, FALSE)
            /\ Panics("remainder with a divisor of zero", <<>>)
       ELSE LET p == RouteIndex(sd, Len(ctx.swaps)) IN
            /\ Locals(p, 0, a, None, FALSE)
            /\ IF Len(At(ctx.swaps, p).route) = 0
               THEN IF IsFinalOverflows(Len(At(ctx.swaps, p).route))
                    THEN Panics("attempt to subtract with overflow", <<>>)
                    ELSE Returns("Some", <<>>)
               ELSE /\ pc' = "buy"
                    /\ result' = "Pending"
                    /\ panic_msg' = ""
                    /\ calls' = <<>>

\* One pass of the loop body of buy, on the nth pair of the reversed route.
BuyHop(out) ==
    /\ pc = "buy"
    /\ ctx' = AfterCalls(ctx)
    /\ UNCHANGED <<op, amount_in, who, seed, info, last, prev, inner, pushed, generic>>
    /\ LET route == At(ctx.swaps, path_idx).route
           path_len == Len(route)
           h == BuyHopIndex(path_len, nth)
           pair == At(route, h)
           is_final == IsFinal(path_len, nth)
       IN
       IF ~is_final /\ WethBeforeHop(At(route, BuyNextIndex(path_len, nth)))
       THEN /\ Panics("Invalid weth context", calls)
            /\ Locals(path_idx, nth, current_amount_in, current_sender, is_first)
       ELSE LET next == BuyNext(is_final, who,
                                At(route, BuyNextIndex(path_len, nth)).pair_address)
            IN
            IF pair.ty = "Uniswap"
            THEN IF current_sender = None
                 THEN /\ Panics("called Option::unwrap() on a None value", calls)
                      /\ Locals(path_idx, nth, current_amount_in, current_sender, is_first)
                 ELSE LET cs == Append(calls, TransformCall(path_idx, h, pair,
                                    current_sender[1], next, current_amount_in, BuyReverse, out))
                      IN
                      IF UniswapFailed(out)
                      THEN /\ Returns("None", cs)
                           /\ Locals(path_idx, nth, current_amount_in, current_sender, is_first)
                      ELSE /\ EndOfBody(path_len, nth, cs)
                           /\ Locals(path_idx, nth + 1, out.amount, Some(out.receiver), is_first)
            ELSE IF current_sender # None
                 THEN /\ Panics("assertion failed: current_sender.is_none()", calls)
                      /\ Locals(path_idx, nth, current_amount_in, current_sender, is_first)
                 ELSE LET cs == Append(calls, TransformCall(path_idx, h, pair,
                                    who, BuyWethNext(who, next), amount_in, BuyReverse, out))
                      IN
                      IF WethFailed(out)
                      THEN /\ Panics("Weth failed", cs)
                           /\ Locals(path_idx, nth, current_amount_in, current_sender, is_first)
                      ELSE /\ EndOfBody(path_len, nth, cs)
                           /\ Locals(path_idx, nth + 1, current_amount_in, Some(who), is_first)

-----------------------------------------------------------------------------
(* TokenContext::sell *)

Sell(a, src, sd) ==
    /\ pc = "idle"
    /\ op' = "sell"
    /\ amount_in' = a
    /\ who' = src
    /\ seed' = sd
    /\ ctx' = AfterCalls(ctx)
    /\ UNCHANGED <<info, last, prev, inner, pushed, generic>>
    /\ IF ctx.is_weth
       THEN /\ Locals(0, 0, 0, None, FALSE)
            /\ IF Len(ctx.swaps) = 0 \/ Len(At(ctx.swaps, 0).route) = 0
               THEN Panics("index out of bounds", <<>>)
               ELSE LET pair == At(At(ctx.swaps, 0).route, 0) IN
                    IF IsWethPair(pair)
                    THEN \E out \in TransformResults :
                            Returns("Some",
                                    <<TransformCall(0, 0, pair, src, UnwrapDestination(src),
                                                    a, SellReverse, out)>>)
                    ELSE Panics("Invalid weth context", <<>>)
       ELSE IF NoRoutes(ctx.swaps)
       THEN /\ Locals(0, 0, 0, None, FALSE)
            /\ Returns("None", <<>>)
       ELSE IF Len(sd) = 0
       THEN /\ Locals(0, 0, a, Some(src), FALSE)
            /\ Panics("index out of bounds", <<>>)
       ELSE IF Len(ctx.swaps) = 0
       THEN /\ Locals(0, 0, a, Some(src), FALSE)
            /\ Panics("remainder with a divisor of zero", <<>>)
       ELSE LET p == RouteIndex(sd, Len(ctx.swaps)) IN
            /\ Locals(p, 0, a, Some(src), TRUE)
            /\ IF Len(At(ctx.swaps, p).route) = 0
               THEN IF IsFinalOverflows(Len(At(ctx.swaps, p).route))
                    THEN Panics("attempt to subtract with overflow", <<>>)
                    ELSE Returns("Some", <<>>)
               ELSE /\ pc' = "sell"
                    /\ result' = "Pending"
                    /\ panic_msg' = ""
                    /\ calls' = <<>>

\* whether this pass of sell reads state.get_rand_caller(): the following hop is a Weth
SellReadsCaller ==
    LET route == At(ctx.swaps, path_idx).route IN
    IF IsFinal(Len(route), nth) THEN FALSE
    ELSE At(route, SellNextIndex(Len(route), nth)).ty = "Weth"

\* (variant: the Weth arm of sell passes the amount sell was called with, as buy does)
SellWethAmount_Original(original, current) == original

\* the amount the Weth arm of sell passes to transform: `current_amount_in`
SellWethAmount(original, current) == current

\* whether this pass of sell calls initial_transfer: `if is_first` in the Uniswap arm
SellPulls ==
    LET route == At(ctx.swaps, path_idx).route IN
    is_first /\ At(route, SellHopIndex(Len(route), nth)).ty = "Uniswap"

\* whether `assert!(!is_first)` in the Weth arm of sell fails: the block is compiled
\* under cfg(test) only, so with is_first set a test build panics there and any other
\* build goes on; with is_first cleared no build does
AssertNotFirst(first) == IF first THEN BOOLEAN ELSE {FALSE}

\* One pass of the loop body of sell, on the nth pair of the route. `caller` is what
\* state.get_rand_caller() answers, `transferred` whether initial_transfer went through;
\* a pass that does not ask for them takes ZeroAddr and TRUE.
SellHop(out, caller, transferred) ==
    /\ pc = "sell"
    /\ caller \in (IF SellReadsCaller THEN Callers ELSE {ZeroAddr})
    /\ transferred \in (IF SellPulls THEN BOOLEAN ELSE {TRUE})
    /\ ctx' = AfterCalls(ctx)
    /\ UNCHANGED <<op, amount_in, who, seed, info, last, prev, inner, pushed, generic>>
    /\ LET route == At(ctx.swaps, path_idx).route
           path_len == Len(route)
           h == SellHopIndex(path_len, nth)
           pair == At(route, h)
           is_final == IsFinal(path_len, nth)
           next == IF is_final THEN ZeroAddr
                   ELSE IF At(route, SellNextIndex(path_len, nth)).ty = "Uniswap"
                   THEN At(route, SellNextIndex(path_len, nth)).pair_address
                   ELSE caller
       IN
       IF pair.ty = "Uniswap"
       THEN LET pulled == IF SellPulls
                          THEN Append(calls, InitialTransferCall(path_idx, h, pair,
                                   current_sender[1], pair.pair_address,
                                   current_amount_in, transferred))
                          ELSE calls
                cs == Append(pulled, TransformCall(path_idx, h, pair,
                          current_sender[1], next, current_amount_in, SellReverse, out))
            IN
            IF SellPulls /\ TransferAborts(transferred)
            THEN /\ Returns("None", pulled)
                 /\ Locals(path_idx, nth, current_amount_in, current_sender, FALSE)
            ELSE IF UniswapFailed(out)
            THEN /\ Returns("None", cs)
                 /\ Locals(path_idx, nth, current_amount_in, current_sender, FALSE)
            ELSE /\ EndOfBody(path_len, nth, cs)
                 /\ Locals(path_idx, nth + 1, out.amount, Some(out.receiver), FALSE)
       ELSE LET cs == Append(calls, TransformCall(path_idx, h, pair,
                          current_sender[1], next,
                          SellWethAmount(amount_in, current_amount_in), SellReverse, out))
            IN
            \E asserted \in AssertNotFirst(is_first) :
                IF asserted
                THEN /\ Panics("assertion failed: !is_first", calls)
                     /\ Locals(path_idx, nth, current_amount_in, current_sender, is_first)
                ELSE IF WethFailed(out)
                THEN /\ Panics("Weth failed", cs)
                     /\ Locals(path_idx, nth, current_amount_in, current_sender, is_first)
                ELSE /\ EndOfBody(path_len, nth, cs)
                     /\ Locals(path_idx, nth + 1, current_amount_in, current_sender,
                               is_first)

\* The caller of buy or sell has its result; the locals of the call are gone.
Return ==
    /\ pc = "done"
    /\ pc' = "idle"
    /\ op' = "none"
    /\ amount_in' = 0
    /\ who' = ZeroAddr
    /\ seed' = <<>>
    /\ Locals(0, 0, 0, None, FALSE)
    /\ calls' = <<>>
    /\ result' = "Pending"
    /\ panic_msg' = ""
    /\ UNCHANGED <<ctx, info, last, prev, inner, pushed, generic>>

-----------------------------------------------------------------------------
(* SwapInfo::concat_path *)

Tokens == {"A", "B", "C"}
PathsUpTo(n) == UNION {[1..k -> Tokens] : k \in 0..n}

\* `for i in (0..self.path.len()).rev() { if self.path[i] == new_path[0] { idx = i; break; } }`
\* from position i downwards; idx stays self.path.len() when nothing matches
RECURSIVE ScanFromEnd(_, _, _)
ScanFromEnd(path, first, i) ==
    IF i < 0 THEN Len(path)
    ELSE IF At(path, i) = first THEN i
    ELSE ScanFromEnd(path, first, i - 1)

\* (variant: new_path[0] is read before the loop, whatever self.path is)
ConcatPathPanics_BeforeLoop(path, new_path) == Len(new_path) = 0

\* new_path[0] is read in the first pass of the loop: out of bounds when new_path is empty
ConcatPathPanics(path, new_path) == Len(path) > 0 /\ Len(new_path) = 0

\* the path after `self.path.truncate(idx); self.path.extend(new_path);`
\* (variant: a match is found and then not used to truncate)
TruncateIndex_Full(path, new_path) == Len(path)

\* (variant: idx starts at 0, so a path without a match is dropped)
TruncateIndex_FromZero(path, new_path) ==
    IF Len(path) = 0 THEN 0
    ELSE IF \E i \in 0..(Len(path) - 1) : At(path, i) = At(new_path, 0)
    THEN ScanFromEnd(path, At(new_path, 0), Len(path) - 1)
    ELSE 0

\* (variant: the matching element is kept, truncate(idx + 1))
TruncateIndex_KeepMatch(path, new_path) ==
    IF Len(path) = 0 THEN 0
    ELSE LET idx == ScanFromEnd(path, At(new_path, 0), Len(path) - 1)
         IN IF idx < Len(path) THEN idx + 1 ELSE idx

\* (variant: the scan runs from the start and stops at the first match)
TruncateIndex_FirstMatch(path, new_path) ==
    IF Len(path) = 0 THEN 0
    ELSE IF \E i \in 0..(Len(path) - 1) : At(path, i) = At(new_path, 0)
    THEN CHOOSE i \in 0..(Len(path) - 1) :
            /\ At(path, i) = At(new_path, 0)
            /\ \A j \in 0..(i - 1) : At(path, j) # At(new_path, 0)
    ELSE Len(path)

\* idx after the loop; the loop does not run, and new_path[0] is not read, on an empty path
TruncateIndex(path, new_path) ==
    IF Len(path) = 0 THEN 0 ELSE ScanFromEnd(path, At(new_path, 0), Len(path) - 1)

concat_path(path, new_path) ==
    SubSeq(path, 1, TruncateIndex(path, new_path)) \o new_path

\* SwapInfo { ty, target, path }
SwapInfo(ty, target, path) == [ty |-> ty, target |-> target, path |-> path]

\* info.concat_path(new_path)
ConcatPath(new_path) ==
    /\ Len(info.path) <= MaxPathLen
    /\ IF last = <<>> THEN TRUE ELSE ~last[1].panicked
    /\ prev' = last
    /\ IF ConcatPathPanics(info.path, new_path)
       THEN /\ info' = info
            /\ last' = <<[before |-> info.path, new_path |-> new_path, panicked |-> TRUE]>>
       ELSE /\ info' = [info EXCEPT !.path = concat_path(info.path, new_path)]
            /\ last' = <<[before |-> info.path, new_path |-> new_path, panicked |-> FALSE]>>
    /\ UNCHANGED tokenVars
    /\ UNCHANGED dataVars

-----------------------------------------------------------------------------
(* SwapData: push with SwapInfo::try_new, to_generic *)

\* the four selectors
SWAP_DEPOSIT == <<208, 227, 13, 176>>
SWAP_WITHDRAW == <<46, 26, 125, 77>>
SWAP_BUY == <<182, 249, 222, 149>>
SWAP_SELL == <<121, 26, 201, 71>>
\* a selector that is none of the four: SWAP_BUY but for its last byte
OtherSelector == <<182, 249, 222, 150>>
Selectors == {SWAP_DEPOSIT, SWAP_WITHDRAW, SWAP_BUY, SWAP_SELL, OtherSelector}

\* enum SwapType
SwapTypes == {"Deposit", "Buy", "Withdraw", "Sell"}

\* the contracts the calls are observed on (argument addr of push)
Targets == {21, 22}
\* checksum(target): the hexadecimal text of the address, letters cased by its hash;
\* these two have no letter
checksum(a) ==
    CASE a = 21 -> "0x0000000000000000000000000000000000000015"
      [] a = 22 -> "0x0000000000000000000000000000000000000016"

\* decoded values (BoxedABI.b): a word, an address, an AArray of values
AWord == [kind |-> "word", value |-> 0, data |-> <<>>]
AAddress(a) == [kind |-> "address", value |-> a, data |-> <<>>]
AArray(data) == [kind |-> "array", value |-> 0, data |-> data]

\* x.b.to_string() on an element of a path argument
to_string(x) ==
    CASE x.kind = "address" /\ x.value = 11 -> "A"
      [] x.kind = "address" /\ x.value = 12 -> "B"
      [] x.kind = "address" /\ x.value = 13 -> "C"
      [] OTHER -> "0"

\* address arrays, as path arguments: [A,B], [B,C] and the empty one
PathAB == AArray(<<AAddress(11), AAddress(12)>>)
PathBC == AArray(<<AAddress(12), AAddress(13)>>)
PathNone == AArray(<<>>)
\* the argument lists of the decoded calls: one to three arguments, the first a word,
\* the second and the third a word or an address array
ArgLists ==
    {<<AWord>>,
     <<AWord, PathAB>>,
     <<AWord, AWord, PathAB>>,
     <<AWord, PathAB, PathBC>>,
     <<AWord, PathBC, PathAB>>,
     <<AWord, PathNone, PathNone>>}
\* the decoded calls: BoxedABI { function, b }, b an AArray of arguments or not
Abis == [function : Selectors, b : {AWord} \cup {AArray(args) : args \in ArgLists}]

\* the closure get_path of try_new
get_path(abi, idx) ==
    IF abi.b.kind = "array"
    THEN IF idx >= Len(abi.b.data)
         THEN [status |-> "panic", msg |-> "index out of bounds", path |-> <<>>]
         ELSE IF At(abi.b.data, idx).kind # "array"
         THEN [status |-> "panic", msg |-> "called Option::unwrap() on a None value",
               path |-> <<>>]
         ELSE LET data == At(abi.b.data, idx).data IN
              [status |-> "some", msg |-> "",
               path |-> [i \in 1..Len(data) |-> to_string(data[i])]]
    ELSE [status |-> "none", msg |-> "", path |-> <<>>]

\* `Some(vec![])`
EmptyPath == [status |-> "some", msg |-> "", path |-> <<>>]

\* (variant: a selector is known by its first three bytes)
Matches_Prefix(function, selector) == SubSeq(function, 1, 3) = SubSeq(selector, 1, 3)

\* a match arm of try_new: `SWAP_BUY => ...`
Matches(function, selector) == function = selector

\* (variant: Buy reads argument 2 and Sell argument 1)
Classify_SwappedArguments(abi) ==
    IF Matches(abi.function, SWAP_BUY) THEN [ty |-> "Buy", found |-> get_path(abi, 2)]
    ELSE IF Matches(abi.function, SWAP_SELL) THEN [ty |-> "Sell", found |-> get_path(abi, 1)]
    ELSE IF Matches(abi.function, SWAP_DEPOSIT) THEN [ty |-> "Deposit", found |-> EmptyPath]
    ELSE IF Matches(abi.function, SWAP_WITHDRAW) THEN [ty |-> "Withdraw", found |-> EmptyPath]
    ELSE [ty |-> "None", found |-> [status |-> "none", msg |-> "", path |-> <<>>]]

\* `let (ty, path) = match abi.function { ... }`; ty "None" stands for `_ => return None`
Classify(abi) ==
    IF Matches(abi.function, SWAP_BUY) THEN [ty |-> "Buy", found |-> get_path(abi, 1)]
    ELSE IF Matches(abi.function, SWAP_SELL) THEN [ty |-> "Sell", found |-> get_path(abi, 2)]
    ELSE IF Matches(abi.function, SWAP_DEPOSIT) THEN [ty |-> "Deposit", found |-> EmptyPath]
    ELSE IF Matches(abi.function, SWAP_WITHDRAW) THEN [ty |-> "Withdraw", found |-> EmptyPath]
    ELSE [ty |-> "None", found |-> [status |-> "none", msg |-> "", path |-> <<>>]]

\* SwapInfo::try_new(target, abi): Some(SwapInfo), None, or a panic
try_new(target, abi) ==
    LET c == Classify(abi) IN
    IF c.found.status = "some"
    THEN [status |-> "some", msg |-> "", new |-> SwapInfo(c.ty, checksum(target), c.found.path)]
    ELSE [status |-> c.found.status, msg |-> c.found.msg, new |-> SwapInfo("Deposit", "", <<>>)]

\* the keys of a map
Keys(map) == {e.key : e \in map}

\* (variant: every entry is taken as vacant)
Vacant_Always(map, ty) == TRUE

\* `hash_map::Entry::Vacant(e) = self.inner.entry(new.ty)`
Vacant(map, ty) == ty \notin Keys(map)

\* `self.inner.get_mut(&new.ty).unwrap()`
Entry(map, ty) == CHOOSE e \in map : e.key = ty

\* (variant: the entry takes the target of the call merged into it)
MergedTarget_Latest(target, new_target) == new_target

\* the target of an entry after `concat_path(new.path)`: of `new` the path alone is
\* handed over, the entry keeps its target
MergedTarget(target, new_target) == target

\* the number of push calls so far
Pushes == IF pushed = <<>> THEN 0 ELSE pushed[1].n

\* push is over: what it was given, the map it found, how it ended
Pushed(addr, abi, panicked, msg) ==
    /\ pushed' = <<[n |-> Pushes + 1, addr |-> addr, abi |-> abi, before |-> inner,
                    panicked |-> panicked, msg |-> msg]>>
    /\ generic' = <<>>

\* swap_data.push(addr, abi)
Push(addr, abi) ==
    /\ IF pushed = <<>> THEN TRUE ELSE ~pushed[1].panicked
    /\ Pushes < MaxPushes
    /\ generic = <<>>
    /\ LET made == try_new(addr, abi) IN
       IF made.status = "panic"
       THEN /\ inner' = inner
            /\ Pushed(addr, abi, TRUE, made.msg)
       ELSE IF made.status = "none"
       THEN /\ inner' = inner
            /\ Pushed(addr, abi, FALSE, "")
       ELSE IF Vacant(inner, made.new.ty)
       THEN /\ inner' = inner \cup {[key |-> made.new.ty, value |-> made.new]}
            /\ Pushed(addr, abi, FALSE, "")
       ELSE LET e == Entry(inner, made.new.ty) IN
            IF ConcatPathPanics(e.value.path, made.new.path)
            THEN /\ inner' = inner
                 /\ Pushed(addr, abi, TRUE, "index out of bounds")
            ELSE /\ inner' = (inner \ {e}) \cup
                        {[key |-> e.key,
                          value |-> [e.value EXCEPT
                                        !.path = concat_path(e.value.path, made.new.path),
                                        !.target = MergedTarget(e.value.target,
                                                                made.new.target)]]}
                 /\ Pushed(addr, abi, FALSE, "")
    /\ UNCHANGED tokenVars
    /\ UNCHANGED mergeVars

\* (variant: Withdraw is spelled as Deposit)
SwapTypeName_Collides(ty) ==
    CASE ty = "Deposit" -> "deposit"
      [] ty = "Buy" -> "buy"
      [] ty = "Withdraw" -> "deposit"
      [] ty = "Sell" -> "sell"

\* impl From<SwapType> for String
SwapTypeName(ty) ==
    CASE ty = "Deposit" -> "deposit"
      [] ty = "Buy" -> "buy"
      [] ty = "Withdraw" -> "withdraw"
      [] ty = "Sell" -> "sell"

\* impl From<SwapInfo> for vm_state::SwapInfo
GenericSwapInfo(i) == [ty |-> SwapTypeName(i.ty), target |-> i.target, path |-> i.path]

\* `.iter().map(|(k, v)| ((*k).into(), v.clone().into())).collect()`: the maps that
\* collecting the pairs can give; of two pairs with one key, in the order of iteration,
\* the later one stays
GenericMaps(map) ==
    {f \in [{SwapTypeName(e.key) : e \in map} -> {GenericSwapInfo(e.value) : e \in map}] :
        \A k \in DOMAIN f :
            \E e \in map : SwapTypeName(e.key) = k /\ f[k] = GenericSwapInfo(e.value)}

\* swap_data.to_generic()
ToGeneric ==
    /\ IF pushed = <<>> THEN TRUE ELSE ~pushed[1].panicked
    /\ generic = <<>>
    /\ \E f \in GenericMaps(inner) : generic' = <<[self |-> inner, map |-> f]>>
    /\ UNCHANGED <<inner, pushed>>
    /\ UNCHANGED tokenVars
    /\ UNCHANGED mergeVars

\* the caller of to_generic is done with the map it got
DropGeneric ==
    /\ generic # <<>>
    /\ generic' = <<>>
    /\ UNCHANGED <<inner, pushed>>
    /\ UNCHANGED tokenVars
    /\ UNCHANGED mergeVars

-----------------------------------------------------------------------------
(* Specifications *)

\* buy and sell on any TokenContext within the bounds
Init ==
    /\ \E shapes \in SwapsShapes, w \in BOOLEAN : ctx = TokenContext(shapes, w)
    /\ Idle
    /\ info = SwapInfo("Deposit", "", <<>>)
    /\ last = <<>>
    /\ prev = <<>>
    /\ inner = {}
    /\ pushed = <<>>
    /\ generic = <<>>

Next ==
    \/ \E a \in AmountsIn, to \in Users, sd \in Seeds : Buy(a, to, sd)
    \/ \E out \in TransformResults : BuyHop(out)
    \/ \E a \in AmountsIn, src \in Users, sd \in Seeds : Sell(a, src, sd)
    \/ \E out \in TransformResults, caller \in Callers \cup {ZeroAddr}, transferred \in BOOLEAN :
            SellHop(out, caller, transferred)
    \/ Return

Spec == Init /\ [][Next]_vars

\* concat_path on any SwapInfo within the bounds
InitMerge ==
    /\ ctx = TokenContext(<<>>, FALSE)
    /\ Idle
    /\ \E path \in PathsUpTo(MaxPathLen) : info = SwapInfo("Buy", "0xT", path)
    /\ last = <<>>
    /\ prev = <<>>
    /\ inner = {}
    /\ pushed = <<>>
    /\ generic = <<>>

NextMerge == \E new_path \in PathsUpTo(MaxNewLen) : ConcatPath(new_path)

SpecMerge == InitMerge /\ [][NextMerge]_vars

\* push and to_generic on a SwapData that starts empty (SwapData::new)
InitData ==
    /\ ctx = TokenContext(<<>>, FALSE)
    /\ Idle
    /\ info = SwapInfo("Deposit", "", <<>>)
    /\ last = <<>>
    /\ prev = <<>>
    /\ inner = {}
    /\ pushed = <<>>
    /\ generic = <<>>

NextData ==
    \/ \E addr \in Targets, abi \in Abis : Push(addr, abi)
    \/ ToGeneric
    \/ DropGeneric

SpecData == InitData /\ [][NextData]_vars

-----------------------------------------------------------------------------
(* Properties of buy and sell *)

\* a call of buy or sell is running or has ended
Called == op # "none"

\* a call that went past the wrapped-native branch and the emptiness test, with a seed
\* that has a first byte
Routed == Called /\ ~ctx.is_weth /\ Len(ctx.swaps) > 0 /\ Len(seed) > 0

\* the route of the running call
ChosenRoute == At(ctx.swaps, path_idx).route

\* the calls of transform among the calls made, in order
RECURSIVE TransformsOf(_)
TransformsOf(cs) ==
    IF cs = <<>> THEN <<>>
    ELSE IF Head(cs).fn = "transform" THEN <<Head(cs)>> \o TransformsOf(Tail(cs))
    ELSE TransformsOf(Tail(cs))

\* C1: on a non-wrapped token with a non-empty route set, buy and sell work on the route
\* at index seed[0] mod routes.len(): every call they make goes to a pair of that route,
\* whatever the rest of the seed is.
C1_RouteSelection ==
    Routed =>
        /\ path_idx = seed[1] % Len(ctx.swaps)
        /\ \A i \in DOMAIN calls :
              /\ calls[i].route = seed[1] % Len(ctx.swaps)
              /\ calls[i].hop \in 0..(Len(At(ctx.swaps, seed[1] % Len(ctx.swaps)).route) - 1)
              /\ calls[i].pair =
                    At(At(ctx.swaps, seed[1] % Len(ctx.swaps)).route, calls[i].hop).pair_address

\* a buy with seed [1, 0] on two routes has called a pair of the route at index 1
C1_Witness ==
    /\ op = "buy"
    /\ ~ctx.is_weth
    /\ Len(ctx.swaps) = 2
    /\ seed = <<1, 0>>
    /\ Len(calls) > 0
    /\ calls[1].route = 1
    /\ calls[1].pair = At(At(ctx.swaps, 1).route, calls[1].hop).pair_address

\* C2: on a non-wrapped token whose swaps list is empty, buy and sell return None at
\* once: no transform and no initial_transfer is called and nothing panics, whatever
\* the amount, the counterparty and the seed (the empty seed included).
C2_EmptySwapsNone ==
    (Called /\ ~ctx.is_weth /\ Len(ctx.swaps) = 0) =>
        /\ pc = "done"
        /\ result = "None"
        /\ calls = <<>>

\* a buy with the empty seed on an empty swaps list has returned None
C2_Witness ==
    /\ op = "buy"
    /\ ~ctx.is_weth
    /\ ctx.swaps = <<>>
    /\ seed = <<>>
    /\ pc = "done"
    /\ result = "None"
    /\ calls = <<>>

\* C3 as claimed: a wrapped-native TokenContext never looks into swaps, whatever the
\* list holds (the empty list included), and buy and sell each call exactly one
\* wrap/unwrap transform.
C3_NeverConsultsSwaps ==
    (Called /\ ctx.is_weth) =>
        /\ result # "Panic"
        /\ Len(calls) = 1
        /\ calls[1].fn = "transform"
        /\ calls[1].ty = "Weth"

\* the first hop of the first route exists and is a wrap hop
FirstHopIsWeth ==
    /\ Len(ctx.swaps) > 0
    /\ Len(At(ctx.swaps, 0).route) > 0
    /\ At(At(ctx.swaps, 0).route, 0).ty = "Weth"

\* C3 as amended: a wrapped-native TokenContext selects no route by the seed; buy and
\* sell look at swaps[0].route[0] alone. When that hop is a wrap hop they call exactly
\* one transform, on it, and return; when it is missing or an AMM hop they panic
\* without calling anything.
C3_WethShortCircuit ==
    (Called /\ ctx.is_weth) =>
        IF FirstHopIsWeth
        THEN /\ pc = "done"
             /\ result = "Some"
             /\ Len(calls) = 1
             /\ calls[1].fn = "transform"
             /\ calls[1].ty = "Weth"
             /\ calls[1].route = 0
             /\ calls[1].hop = 0
        ELSE /\ pc = "panicked"
             /\ result = "Panic"
             /\ calls = <<>>

\* a sell with seed [1] on a wrapped-native token with two routes has called the wrap
\* hop of route 0, once
C3_Witness ==
    /\ op = "sell"
    /\ ctx.is_weth
    /\ Len(ctx.swaps) = 2
    /\ Len(At(ctx.swaps, 1).route) > 0
    /\ seed = <<1>>
    /\ Len(calls) = 1
    /\ calls[1].route = 0
    /\ calls[1].ty = "Weth"

\* the chosen route is made of two AMM hops, [PoolA, PoolB]
TwoPools ==
    /\ Len(ChosenRoute) = 2
    /\ At(ChosenRoute, 0).ty = "Uniswap"
    /\ At(ChosenRoute, 1).ty = "Uniswap"

\* C4 as claimed: on a non-wrapped token buy walks the chosen route in reverse order.
\* On [PoolA, PoolB] it calls PoolB.transform, then PoolA.transform with PoolB's output
\* amount and the recipient as destination; in general hop k+1 is transformed before
\* hop k and each AMM hop's input amount is the output amount of the hop processed
\* before it.
C4_BuyReverseOrder ==
    (Routed /\ op = "buy") =>
        /\ \A i \in 2..Len(calls) :
              /\ calls[i].hop = calls[i - 1].hop - 1
              /\ calls[i].ty = "Uniswap" => calls[i].amount = calls[i - 1].amount_out
        /\ (TwoPools /\ pc # "buy") =>
              /\ Len(calls) >= 1
              /\ calls[1].pair = At(ChosenRoute, 1).pair_address
              /\ result = "Some" =>
                    /\ Len(calls) = 2
                    /\ calls[2].pair = At(ChosenRoute, 0).pair_address
                    /\ calls[2].amount = calls[1].amount_out
                    /\ calls[2].next = who

\* C5: on a non-wrapped token sell walks the chosen route in forward order: the k-th
\* transform is on hop k, it takes the receiver and the output amount of the AMM hop
\* before it, the first one takes the seller and amount_in, the last hop's destination
\* is the zero address; when the first hop is an AMM hop, initial_transfer into it is
\* the first call made, before any transform.
C5_SellForwardOrder ==
    (Routed /\ op = "sell") =>
        LET T == TransformsOf(calls) IN
        /\ \A k \in DOMAIN T :
              /\ T[k].hop = k - 1
              /\ T[k].pair = At(ChosenRoute, k - 1).pair_address
              /\ T[k].hop = Len(ChosenRoute) - 1 => T[k].next = ZeroAddr
        /\ T # <<>> => (T[1].src = who /\ T[1].amount = amount_in)
        /\ \A k \in 2..Len(T) :
              T[k - 1].ty = "Uniswap" =>
                  (T[k].src = T[k - 1].receiver /\ T[k].amount = T[k - 1].amount_out)
        /\ (calls # <<>> /\ At(ChosenRoute, 0).ty = "Uniswap") =>
              /\ calls[1].fn = "initial_transfer"
              /\ calls[1].pair = At(ChosenRoute, 0).pair_address
              /\ calls[1].next = At(ChosenRoute, 0).pair_address
              /\ calls[1].src = who
              /\ calls[1].amount = amount_in

\* a sell on [PoolA, PoolB] has returned Some(()) after initial_transfer into PoolA,
\* PoolA.transform and PoolB.transform, PoolB taking PoolA's receiver and amount
C5_Witness ==
    /\ Routed
    /\ op = "sell"
    /\ TwoPools
    /\ pc = "done"
    /\ result = "Some"
    /\ Len(calls) = 3
    /\ calls[1].fn = "initial_transfer"
    /\ calls[2].pair = At(ChosenRoute, 0).pair_address
    /\ calls[3].pair = At(ChosenRoute, 1).pair_address
    /\ calls[2].amount_out = 7
    /\ calls[3].amount = 7
    /\ calls[3].src = calls[2].receiver
    /\ calls[3].next = ZeroAddr

\* C6: when the transform of an AMM hop fails, in buy or in sell, that call is the last
\* one made and the whole call returns None: no later hop is transformed, nothing is
\* retried, nothing panics.
C6_AmmFailureIsNone ==
    \A i \in DOMAIN calls :
        (calls[i].fn = "transform" /\ calls[i].ty = "Uniswap" /\ ~calls[i].ok) =>
            /\ i = Len(calls)
            /\ pc = "done"
            /\ result = "None"

\* a sell on [PoolA, PoolB] has returned None after PoolA.transform failed, PoolB
\* untouched
C6_Witness ==
    /\ Routed
    /\ op = "sell"
    /\ TwoPools
    /\ Len(calls) = 2
    /\ calls[2].fn = "transform"
    /\ calls[2].hop = 0
    /\ ~calls[2].ok
    /\ result = "None"

\* C7: when the transform of a wrap hop fails inside the traversal of a route, in buy
\* or in sell, the call panics there ("Weth failed"): it returns neither None nor
\* Some(()), and no later hop is transformed.
C7_WethFailureIsFatal ==
    ~ctx.is_weth =>
        \A i \in DOMAIN calls :
            (calls[i].fn = "transform" /\ calls[i].ty = "Weth" /\ ~calls[i].ok) =>
                /\ i = Len(calls)
                /\ pc = "panicked"
                /\ result = "Panic"
                /\ panic_msg = "Weth failed"

\* a sell on [Pool, Weth] has panicked on the wrap hop, after the pool's transform
\* went through
C7_Witness ==
    /\ Routed
    /\ op = "sell"
    /\ Len(calls) = 3
    /\ calls[2].ty = "Uniswap"
    /\ calls[2].ok
    /\ calls[3].ty = "Weth"
    /\ ~calls[3].ok
    /\ result = "Panic"
    /\ panic_msg = "Weth failed"

\* the positions of the calls of initial_transfer among the calls made
Pulls == {i \in DOMAIN calls : calls[i].fn = "initial_transfer"}

\* a call of sell that went into the loop of a non-empty route and made it through the
\* first hop at least
SellTraversed ==
    /\ Routed
    /\ op = "sell"
    /\ Len(ChosenRoute) > 0
    /\ (pc = "sell" => nth > 0)

\* C16 as claimed: a sell on a non-empty chosen route calls initial_transfer exactly
\* once, before the transform of the first hop of the route; buy and the wrapped-native
\* branch never call it.
C16_PullsOncePerSell ==
    /\ (op = "buy" \/ ctx.is_weth) => Pulls = {}
    /\ SellTraversed =>
          /\ Pulls = {1}
          /\ calls[1].hop = 0
          /\ Len(calls) >= 2
          /\ calls[2].fn = "transform"
          /\ calls[2].hop = 0

\* C17 as claimed: in a traversal of buy every wrap hop is called with the recipient as
\* source and as destination and with the original amount_in, on a route of any length,
\* AMM hops after the wrap hop or not.
C17_WethHopToRecipient ==
    (Routed /\ op = "buy") =>
        \A i \in DOMAIN calls :
            calls[i].ty = "Weth" =>
                /\ calls[i].src = who
                /\ calls[i].next = who
                /\ calls[i].amount = amount_in

\* C17 as amended: in a traversal of buy a wrap hop is the first hop called; its source
\* is the recipient and its amount the original amount_in; its destination is the
\* recipient when the wrap hop is the whole route (route index 0), and the pool address
\* of the hop before it in route order when AMM hops follow.
C17_WethHopToNext ==
    (Routed /\ op = "buy") =>
        \A i \in DOMAIN calls :
            calls[i].ty = "Weth" =>
                /\ i = 1
                /\ calls[i].src = who
                /\ calls[i].amount = amount_in
                /\ calls[i].reverse
                /\ calls[i].next =
                      IF calls[i].hop = 0 THEN who
                      ELSE At(ChosenRoute, calls[i].hop - 1).pair_address

\* a buy on [Pool, Weth] has called the wrap hop with the recipient as source, the
\* original amount and the pool as destination
C17_Witness ==
    /\ Routed
    /\ op = "buy"
    /\ Len(ChosenRoute) = 2
    /\ At(ChosenRoute, 0).ty = "Uniswap"
    /\ Len(calls) >= 1
    /\ calls[1].ty = "Weth"
    /\ calls[1].hop = 1
    /\ calls[1].src = who
    /\ calls[1].amount = amount_in
    /\ calls[1].next = At(ChosenRoute, 0).pair_address
    /\ calls[1].next # who

\* C18: in a traversal of buy the destination given to a hop is the recipient when the
\* hop is the last one processed, the hop at route index 0, and otherwise the pool
\* address of the hop before it in route order, index k - 1 for the hop at index k.
C18_BuyDestination ==
    (Routed /\ op = "buy") =>
        \A i \in DOMAIN calls :
            /\ calls[i].fn = "transform"
            /\ calls[i].hop = 0 => calls[i].next = who
            /\ calls[i].hop > 0 =>
                  /\ At(ChosenRoute, calls[i].hop - 1).ty = "Uniswap"
                  /\ calls[i].next = At(ChosenRoute, calls[i].hop - 1).pair_address

\* a buy on [Pool, Weth] has returned Some(()): the hop at index 1 was given the
\* address of the pool at index 0, the pool was given the recipient
C18_Witness ==
    /\ Routed
    /\ op = "buy"
    /\ pc = "done"
    /\ result = "Some"
    /\ Len(calls) = 2
    /\ calls[1].hop = 1
    /\ calls[1].next = At(ChosenRoute, 0).pair_address
    /\ calls[2].hop = 0
    /\ calls[2].ty = "Uniswap"
    /\ calls[2].next = who

\* C19: in a traversal of sell the destination given to a hop is the zero address when
\* the hop is the last of the route; otherwise the pool address of the hop that
\* follows, unless that hop is a wrap hop: then it is an address of the caller pool of
\* the fuzzer state.
C19_SellDestination ==
    (Routed /\ op = "sell") =>
        \A i \in DOMAIN calls :
            calls[i].fn = "transform" =>
                IF calls[i].hop = Len(ChosenRoute) - 1
                THEN calls[i].next = ZeroAddr
                ELSE IF At(ChosenRoute, calls[i].hop + 1).ty = "Weth"
                THEN calls[i].next \in Callers
                ELSE calls[i].next = At(ChosenRoute, calls[i].hop + 1).pair_address

\* a sell on [Pool, Weth] has given the pool the caller 6 as destination and the wrap
\* hop the zero address
C19_Witness ==
    /\ Routed
    /\ op = "sell"
    /\ Len(ChosenRoute) = 2
    /\ At(ChosenRoute, 1).ty = "Weth"
    /\ Len(calls) = 3
    /\ calls[2].hop = 0
    /\ calls[2].next = 6
    /\ calls[3].hop = 1
    /\ calls[3].next = ZeroAddr

\* C20: on a wrapped-native token buy calls the wrap transform with the counterparty
\* as source and as destination, the amount given and reverse = true; sell calls it
\* with the seller as source, the zero address as destination, the amount given and
\* reverse = false.
C20_ShortCircuitArguments ==
    (Called /\ ctx.is_weth) =>
        \A i \in DOMAIN calls :
            /\ calls[i].fn = "transform"
            /\ calls[i].ty = "Weth"
            /\ calls[i].src = who
            /\ calls[i].amount = amount_in
            /\ op = "buy" => (calls[i].next = who /\ calls[i].reverse)
            /\ op = "sell" => (calls[i].next = ZeroAddr /\ ~calls[i].reverse)

\* a sell of 10 by the seller 2 on a wrapped-native token has called the unwrap with
\* the seller, the zero address, 10 and reverse = false
C20_Witness ==
    /\ op = "sell"
    /\ ctx.is_weth
    /\ who = 2
    /\ calls # <<>>
    /\ calls[1].src = 2
    /\ calls[1].next = ZeroAddr
    /\ calls[1].amount = 10
    /\ ~calls[1].reverse

\* C21 as claimed: on a wrapped-native token, when the one wrap/unwrap transform fails,
\* buy and sell return None; they return Some(()) only when that transform went
\* through.
C21_ShortCircuitFailureIsNone ==
    (Called /\ ctx.is_weth /\ calls # <<>>) =>
        /\ ~calls[1].ok => result = "None"
        /\ result = "Some" => calls[1].ok

\* the route positions (0-based) of the chosen route that hold a wrap hop and are not
\* the last one
MisplacedWeth ==
    {k \in 0..(Len(ChosenRoute) - 2) : At(ChosenRoute, k).ty = "Weth"}

\* C22: in a traversal of buy a wrap hop is in its place only at the last position of
\* the route, the first one processed. On a route with a wrap hop anywhere else buy
\* calls no transform on that hop and never returns Some(()); the pass that finds the
\* wrap hop before the hop it processes panics with "Invalid weth context", before
\* that hop's transform.
C22_MisplacedWethIsFatal ==
    (Routed /\ op = "buy" /\ MisplacedWeth # {}) =>
        /\ result # "Some"
        /\ \A i \in DOMAIN calls :
              /\ calls[i].hop \notin MisplacedWeth
              /\ (calls[i].hop - 1) \notin MisplacedWeth
        /\ (pc = "panicked" /\ (BuyHopIndex(Len(ChosenRoute), nth) - 1) \in MisplacedWeth) =>
              panic_msg = "Invalid weth context"
        /\ (pc # "buy" /\ Len(ChosenRoute) = 2) =>
              (result = "Panic" /\ panic_msg = "Invalid weth context" /\ calls = <<>>)

\* a buy on [Weth, Pool] has panicked with "Invalid weth context" on its first pass,
\* no transform called
C22_Witness ==
    /\ Routed
    /\ op = "buy"
    /\ Len(ChosenRoute) = 2
    /\ At(ChosenRoute, 0).ty = "Weth"
    /\ At(ChosenRoute, 1).ty = "Uniswap"
    /\ pc = "panicked"
    /\ panic_msg = "Invalid weth context"
    /\ calls = <<>>

\* the first hop of the first route exists and is an AMM hop
FirstHopIsPool ==
    /\ Len(ctx.swaps) > 0
    /\ Len(At(ctx.swaps, 0).route) > 0
    /\ At(At(ctx.swaps, 0).route, 0).ty = "Uniswap"

\* C23: on a wrapped-native token whose first hop of the first route is not a wrap hop,
\* buy and sell panic ("Invalid weth context") without calling any transform; they
\* return neither Some(()) nor None.
C23_InvalidWethContextIsFatal ==
    (Called /\ ctx.is_weth /\ FirstHopIsPool) =>
        /\ pc = "panicked"
        /\ result = "Panic"
        /\ panic_msg = "Invalid weth context"
        /\ calls = <<>>

\* a buy on a wrapped-native token whose first route is [Pool, Weth] has panicked with
\* "Invalid weth context", nothing called
C23_Witness ==
    /\ op = "buy"
    /\ ctx.is_weth
    /\ FirstHopIsPool
    /\ Len(At(ctx.swaps, 0).route) = 2
    /\ At(At(ctx.swaps, 0).route, 1).ty = "Weth"
    /\ pc = "panicked"
    /\ panic_msg = "Invalid weth context"
    /\ calls = <<>>

\* C26: sell does not look at what initial_transfer gives back: whether it went through
\* or not, the transform of the hop pulled into is the call that follows; and a sell
\* that returns None on a non-empty swaps list has just had the transform of an AMM hop
\* fail.
C26_TransferUnchecked ==
    (Routed /\ op = "sell") =>
        /\ \A i \in Pulls :
              /\ i < Len(calls)
              /\ calls[i + 1].fn = "transform"
              /\ calls[i + 1].hop = calls[i].hop
        /\ result = "None" =>
              /\ calls # <<>>
              /\ calls[Len(calls)].fn = "transform"
              /\ calls[Len(calls)].ty = "Uniswap"
              /\ ~calls[Len(calls)].ok

\* a sell on a single pool has returned Some(()): initial_transfer failed, the pool's
\* transform was called all the same and went through
C26_Witness ==
    /\ Routed
    /\ op = "sell"
    /\ Len(ChosenRoute) = 1
    /\ Len(calls) = 2
    /\ calls[1].fn = "initial_transfer"
    /\ ~calls[1].ok
    /\ calls[2].fn = "transform"
    /\ calls[2].ok
    /\ pc = "done"
    /\ result = "Some"

\* C27: every transform called by buy, on an AMM hop, on a wrap hop of a route or in
\* the wrapped-native branch, has reverse = true, and every transform called by sell
\* has reverse = false; the calls of one operation never have both.
C27_ReverseFlag ==
    Called =>
        /\ \A i \in DOMAIN calls :
              calls[i].fn = "transform" => (calls[i].reverse <=> op = "buy")
        /\ \A i \in DOMAIN calls, j \in DOMAIN calls :
              (calls[i].fn = "transform" /\ calls[j].fn = "transform") =>
                  calls[i].reverse = calls[j].reverse

\* a sell on [Pool, Weth] has called two transforms, both with reverse = false
C27_Witness ==
    /\ Routed
    /\ op = "sell"
    /\ Len(calls) = 3
    /\ calls[2].fn = "transform"
    /\ calls[2].ty = "Uniswap"
    /\ ~calls[2].reverse
    /\ calls[3].fn = "transform"
    /\ calls[3].ty = "Weth"
    /\ ~calls[3].reverse
    /\ pc = "done"

\* buy or sell is in its loop
InLoop == pc \in {"buy", "sell"}

\* what holds of a call at every moment: in the loop the counter is short of the length
\* of the chosen route and every pass so far called one transform; no hop is
\* transformed twice; every call made goes to the chosen route; a call that is over
\* has returned Some(()) or None, or has panicked
SinglePass ==
    /\ InLoop =>
          /\ Routed
          /\ nth < Len(ChosenRoute)
          /\ Len(TransformsOf(calls)) = nth
    /\ \A i \in DOMAIN calls, j \in DOMAIN calls :
          (i # j /\ calls[i].fn = "transform" /\ calls[j].fn = "transform") =>
              calls[i].hop # calls[j].hop
    /\ Routed =>
          /\ Len(TransformsOf(calls)) <= Len(ChosenRoute)
          /\ \A i \in DOMAIN calls : calls[i].route = path_idx
    /\ pc = "done" => result \in {"Some", "None"}
    /\ pc = "panicked" => result = "Panic"

\* a pass of the loop ends the call or moves the counter on by one; it keeps the calls
\* made before it and, unless it panics, adds its own
PassAdvances ==
    InLoop =>
        /\ pc' \in {"done", "panicked"} \/ (pc' = pc /\ nth' = nth + 1)
        /\ pc' = "panicked" \/ Len(calls') > Len(calls)
        /\ Len(calls') >= Len(calls)
        /\ SubSeq(calls', 1, Len(calls)) = calls

\* C28: a call of buy or sell ends after one pass over the chosen route, in Some(()),
\* in None or in a panic: every pass of the loop ends the call or moves on to the next
\* hop, the counter never reaches the length of the route inside the loop, transform is
\* called once per hop at most, nothing is retried, and no hop of another route is
\* called.
C28_SinglePass == []SinglePass /\ [][PassAdvances]_vars

\* a sell on the second of two routes, [Pool, Pool], has returned Some(()) after one
\* transform on each of its two hops, none on the first route
C28_Witness ==
    /\ Routed
    /\ op = "sell"
    /\ Len(ctx.swaps) = 2
    /\ path_idx = 1
    /\ TwoPools
    /\ pc = "done"
    /\ result = "Some"
    /\ Len(TransformsOf(calls)) = 2
    /\ TransformsOf(calls)[1].hop = 0
    /\ TransformsOf(calls)[2].hop = 1
    /\ \A i \in DOMAIN calls : calls[i].route = 1

\* C29: buy and sell never change the TokenContext: in every step of every sequence of
\* calls, whether a call returns Some(()), returns None or panics, the routes, the
\* order, the kind and the address of the hops of each route, is_weth and weth_address
\* stay what they were at construction.
C29_ContextUnchanged == [][ctx' = ctx]_vars

\* a buy on the second of two routes, [Pool, Weth], has ended with None after the wrap
\* hop's transform went through and the pool's failed, and the context still has its
\* two routes
C29_Witness ==
    /\ Routed
    /\ op = "buy"
    /\ Len(ctx.swaps) = 2
    /\ path_idx = 1
    /\ Len(ChosenRoute) = 2
    /\ At(ChosenRoute, 0) = [ty |-> "Uniswap", pair_address |-> PairAddressOf(1, 0)]
    /\ At(ChosenRoute, 1) = [ty |-> "Weth", pair_address |-> WethAddr]
    /\ Len(calls) = 2
    /\ ~calls[2].ok
    /\ pc = "done"
    /\ result = "None"

\* C30 as claimed: in a traversal of buy on a non-empty route, routes made of AMM hops
\* only included, current_sender is set before the first AMM hop is processed: buy
\* never panics on unwrapping it.
C30_SenderSetBeforeAmmHop ==
    (Routed /\ op = "buy" /\ Len(ChosenRoute) > 0) =>
        /\ panic_msg # "called Option::unwrap() on a None value"
        /\ (InLoop /\ At(ChosenRoute, BuyHopIndex(Len(ChosenRoute), nth)).ty = "Uniswap") =>
              current_sender # None

\* the transform calls on AMM hops made before call i
AmmBefore(i) ==
    {j \in 1..(i - 1) : calls[j].fn = "transform" /\ calls[j].ty = "Uniswap"}

\* C31: in a traversal of sell a wrap hop that follows an AMM hop is called with the
\* receiver that AMM hop returned as source and its output as amount, and the first AMM
\* hop is called with the seller as source and the original amount_in.
C31_SellThreadsValues ==
    (Routed /\ op = "sell") =>
        \A i \in DOMAIN calls :
            calls[i].fn = "transform" =>
                IF AmmBefore(i) = {}
                THEN /\ calls[i].src = who
                     /\ calls[i].amount = amount_in
                ELSE LET j == CHOOSE k \in AmmBefore(i) : \A l \in AmmBefore(i) : l <= k IN
                     /\ calls[j].ok
                     /\ calls[i].src = calls[j].receiver
                     /\ calls[i].amount = calls[j].amount_out

\* a sell on [Pool, Weth] has called the pool with the seller and the original amount,
\* and the wrap hop with the receiver and the output of the pool, which are others
C31_Witness ==
    /\ Routed
    /\ op = "sell"
    /\ Len(ChosenRoute) = 2
    /\ Len(calls) = 3
    /\ calls[2].ty = "Uniswap"
    /\ calls[2].src = who
    /\ calls[2].amount = amount_in
    /\ calls[3].ty = "Weth"
    /\ calls[3].src = calls[2].receiver
    /\ calls[3].src # who
    /\ calls[3].amount = calls[2].amount_out
    /\ calls[3].amount # amount_in

\* C34: on a non-wrapped token, when the chosen route has no hop, buy and sell return
\* Some(()) with no call of transform or initial_transfer and without a panic.
C34_ZeroHopRouteIsSome ==
    (Routed /\ Len(ChosenRoute) = 0) =>
        /\ pc = "done"
        /\ result = "Some"
        /\ calls = <<>>
        /\ panic_msg = ""

\* a sell on the second of two routes, the one without hops, beside a route of two
\* pools, has returned Some(())
C34_Witness ==
    /\ Routed
    /\ op = "sell"
    /\ Len(ctx.swaps) = 2
    /\ path_idx = 1
    /\ Len(ChosenRoute) = 0
    /\ Len(At(ctx.swaps, 0).route) = 2
    /\ result = "Some"
    /\ calls = <<>>

-----------------------------------------------------------------------------
(* Properties of SwapInfo::concat_path *)

\* the latest concat_path, when there is one and it returned
Merged == last # <<>> /\ ~last[1].panicked

\* the elements of a path
Elems(path) == {path[i] : i \in DOMAIN path}

\* C8: when the first element of the new path is the last element of the existing
\* path, concat_path gives the existing path followed by the new path without its
\* first element: [A,B] with [B,C] gives [A,B,C].
C8_AdjacentExtension ==
    (/\ last # <<>>
     /\ last[1].before # <<>>
     /\ last[1].new_path # <<>>
     /\ last[1].new_path[1] = last[1].before[Len(last[1].before)]) =>
        /\ ~last[1].panicked
        /\ info.path = last[1].before \o Tail(last[1].new_path)

\* [A,B] merged with [B,C] is [A,B,C]
C8_Witness ==
    /\ Merged
    /\ last[1].before = <<"A", "B">>
    /\ last[1].new_path = <<"B", "C">>
    /\ info.path = <<"A", "B", "C">>

\* C9: when the new path is not empty and its first element occurs nowhere in the
\* existing path, concat_path gives the existing path followed by the new path; so it
\* does on an empty existing path.
C9_NoOverlapConcatenates ==
    (/\ last # <<>>
     /\ last[1].new_path # <<>>
     /\ last[1].new_path[1] \notin Elems(last[1].before)) =>
        /\ ~last[1].panicked
        /\ info.path = last[1].before \o last[1].new_path

\* [A,B] merged with [C,A], whose first element C is not in [A,B], is [A,B,C,A]
C9_Witness ==
    /\ Merged
    /\ last[1].before = <<"A", "B">>
    /\ last[1].new_path = <<"C", "A">>
    /\ info.path = <<"A", "B", "C", "A">>

\* the latest concat_path merged a non-empty path P into a SwapInfo whose path was P
MergedIntoItself ==
    /\ last # <<>>
    /\ last[1].new_path # <<>>
    /\ last[1].before = last[1].new_path

\* the two latest concat_path merged the same non-empty path P, the first of them into
\* a SwapInfo whose path was P
MergedTwice ==
    /\ prev # <<>>
    /\ last # <<>>
    /\ prev[1].new_path # <<>>
    /\ prev[1].before = prev[1].new_path
    /\ last[1].new_path = prev[1].new_path

\* C10 as claimed: for every non-empty path P, merging P into a SwapInfo whose path is
\* P gives P, and merging P a second time gives the same path again.
C10_Idempotent ==
    /\ MergedIntoItself => info.path = last[1].new_path
    /\ MergedTwice => (info.path = last[1].before /\ info.path = last[1].new_path)

\* the first element of the path does not occur again in it
FirstOccursOnce(path) == \A i \in 2..Len(path) : path[i] # path[1]

\* C10 as amended: for every non-empty path P whose first element does not occur again
\* in P, merging P into a SwapInfo whose path is P gives P, and merging P a second time
\* gives P again.
C10_IdempotentFirstOnce ==
    /\ (MergedIntoItself /\ FirstOccursOnce(last[1].new_path)) =>
          (~last[1].panicked /\ info.path = last[1].new_path)
    /\ (MergedTwice /\ FirstOccursOnce(last[1].new_path)) =>
          (~last[1].panicked /\ info.path = last[1].before /\ info.path = last[1].new_path)

\* [A,B] has been merged twice into a SwapInfo whose path was [A,B], and the path is
\* [A,B]
C10_Witness ==
    /\ MergedTwice
    /\ Merged
    /\ prev[1].before = <<"A", "B">>
    /\ last[1].new_path = <<"A", "B">>
    /\ last[1].before = <<"A", "B">>
    /\ info.path = <<"A", "B">>

\* the indices (0-based) at which x occurs in a path
Occurrences(path, x) == {i \in 0..(Len(path) - 1) : At(path, i) = x}

\* the greatest element of a non-empty set of numbers
Greatest(S) == CHOOSE i \in S : \A j \in S : j <= i

\* s ends with t
EndsWith(s, t) ==
    /\ Len(s) >= Len(t)
    /\ SubSeq(s, Len(s) - Len(t) + 1, Len(s)) = t

\* C14: a merge of a non-empty new path whose first element occurs in the existing path
\* keeps the existing elements before index i, the greatest index at which that element
\* occurs, and appends the whole new path: existing[0..i) ++ new_path, also when the
\* element occurs more than once. The path after a merge of a non-empty new path ends
\* with the new path.
C14_TruncatesAtLastOccurrence ==
    (last # <<>> /\ last[1].new_path # <<>>) =>
        LET before == last[1].before
            new_path == last[1].new_path
            found == Occurrences(before, new_path[1])
        IN
        /\ ~last[1].panicked
        /\ found # {} => info.path = SubSeq(before, 1, Greatest(found)) \o new_path
        /\ EndsWith(info.path, new_path)

\* [A,B,A], where A occurs at 0 and at 2, merged with [A,C] is [A,B,A,C]
C14_Witness ==
    /\ Merged
    /\ last[1].before = <<"A", "B", "A">>
    /\ last[1].new_path = <<"A", "C">>
    /\ info.path = <<"A", "B", "A", "C">>

\* C15 as claimed: a merge of an empty new path changes nothing, whatever the existing
\* path is, empty or not: the path stays as it was and no index is read out of bounds.
C15_EmptyNewPathIsNoOp ==
    (last # <<>> /\ last[1].new_path = <<>>) =>
        /\ ~last[1].panicked
        /\ info.path = last[1].before

-----------------------------------------------------------------------------
(* Properties of SwapData *)

\* the latest push, when there is one and it returned
PushReturned == pushed # <<>> /\ ~pushed[1].panicked

\* what try_new made of the call given to the latest push
PushedNew == try_new(pushed[1].addr, pushed[1].abi)

\* the latest push returned, its call gave a SwapInfo, and the map had an entry of that
\* type
PushMerged ==
    /\ PushReturned
    /\ PushedNew.status = "some"
    /\ PushedNew.new.ty \in Keys(pushed[1].before)

\* the paths stored under a type
PathsOf(map, ty) == {e.value.path : e \in {x \in map : x.key = ty}}

\* C11: whatever was pushed, SwapData holds at most one SwapInfo per SwapType, stored
\* under its own type; a push of a type that is present adds no entry: the types
\* present stay the same, one entry each, and the path of the entry of that type
\* becomes the merge of its path with the new path.
C11_OnePerType ==
    /\ \A e1 \in inner, e2 \in inner : e1.key = e2.key => e1 = e2
    /\ \A e \in inner : e.key \in SwapTypes /\ e.value.ty = e.key
    /\ PushMerged =>
          /\ Keys(inner) = Keys(pushed[1].before)
          /\ Cardinality(inner) = Cardinality(pushed[1].before)
          /\ \A old \in PathsOf(pushed[1].before, PushedNew.new.ty) :
                PathsOf(inner, PushedNew.new.ty) = {concat_path(old, PushedNew.new.path)}

\* a Buy call with path [B,C] was pushed on a SwapData holding a Deposit entry and a
\* Buy entry of path [A,B]: two entries still, the Buy one with path [A,B,C]
C11_Witness ==
    /\ PushMerged
    /\ PushedNew.new.ty = "Buy"
    /\ PushedNew.new.path = <<"B", "C">>
    /\ Keys(pushed[1].before) = {"Deposit", "Buy"}
    /\ PathsOf(pushed[1].before, "Buy") = {<<"A", "B">>}
    /\ Cardinality(inner) = 2
    /\ PathsOf(inner, "Buy") = {<<"A", "B", "C">>}

\* the selector of the call given to the latest push is none of the four
PushedUnknown ==
    /\ pushed # <<>>
    /\ pushed[1].abi.function \notin {SWAP_DEPOSIT, SWAP_WITHDRAW, SWAP_BUY, SWAP_SELL}

\* C12: a push of a call whose selector is none of the four returns without a panic
\* and leaves SwapData as it was, whatever the arguments of the call are.
C12_UnknownSelectorIgnored ==
    PushedUnknown =>
        /\ ~pushed[1].panicked
        /\ inner = pushed[1].before

\* a call with an unknown selector and two address arrays as arguments was pushed on a
\* SwapData holding a Buy entry, and the entry is all there is
C12_Witness ==
    /\ PushedUnknown
    /\ pushed[1].abi.b = AArray(<<AWord, PathAB, PathBC>>)
    /\ Keys(pushed[1].before) = {"Buy"}
    /\ ~pushed[1].panicked
    /\ inner = pushed[1].before

\* the names of the types in the generic shape
TextualName == [Deposit |-> "deposit", Buy |-> "buy", Withdraw |-> "withdraw", Sell |-> "sell"]

\* C13: the map to_generic returns has one entry for each SwapType recorded and no
\* other, under the names deposit, buy, withdraw, sell; the value under a name carries
\* that name as its type, and the target and the path stored for the type, as they are;
\* the names of two types are never the same, and SwapData is what it was before.
C13_ToGeneric ==
    generic # <<>> =>
        LET g == generic[1].map IN
        /\ DOMAIN g = {TextualName[ty] : ty \in Keys(inner)}
        /\ Cardinality(DOMAIN g) = Cardinality(inner)
        /\ \A e \in inner :
              g[TextualName[e.key]] =
                  [ty |-> TextualName[e.key], target |-> e.value.target, path |-> e.value.path]
        /\ \A t1 \in SwapTypes, t2 \in SwapTypes : t1 # t2 => TextualName[t1] # TextualName[t2]
        /\ inner = generic[1].self

\* to_generic on a SwapData holding Deposit, Withdraw and a Buy entry of path [A,B]
\* seen on the contract 0x..15 returned three entries, the one under buy with that
\* target and path
C13_Witness ==
    /\ generic # <<>>
    /\ Keys(inner) = {"Deposit", "Withdraw", "Buy"}
    /\ DOMAIN generic[1].map = {"deposit", "withdraw", "buy"}
    /\ generic[1].map["buy"] =
          [ty |-> "buy", target |-> "0x0000000000000000000000000000000000000015",
           path |-> <<"A", "B">>]
    /\ generic[1].map["withdraw"].ty = "withdraw"

\* the call given to the latest push has the selector of Buy or of Sell, and its path
\* argument (argument 1 of Buy, 2 of Sell) is missing or is no array
PushedMalformed ==
    /\ pushed # <<>>
    /\ pushed[1].abi.function \in {SWAP_BUY, SWAP_SELL}
    /\ LET b == pushed[1].abi.b
           idx == IF pushed[1].abi.function = SWAP_BUY THEN 1 ELSE 2
       IN
       IF b.kind # "array" THEN TRUE
       ELSE IF idx >= Len(b.data) THEN TRUE
       ELSE At(b.data, idx).kind # "array"

\* C24 as claimed: a push of a Buy or Sell call whose path argument is missing or is
\* not an address array returns without a panic and leaves SwapData as it was.
C24_MalformedPathDiscarded ==
    PushedMalformed =>
        /\ ~pushed[1].panicked
        /\ inner = pushed[1].before

\* the selector of the call given to the latest push is one of the four
PushedKnown ==
    /\ pushed # <<>>
    /\ pushed[1].abi.function \in
          {<<208, 227, 13, 176>>, <<46, 26, 125, 77>>, <<182, 249, 222, 149>>, <<121, 26, 201, 71>>}

\* the type the four selectors stand for: d0e30db0, 2e1a7d4d, b6f9de95, 791ac947
TypeOfSelector(function) ==
    CASE function = <<208, 227, 13, 176>> -> "Deposit"
      [] function = <<46, 26, 125, 77>> -> "Withdraw"
      [] function = <<182, 249, 222, 149>> -> "Buy"
      [] function = <<121, 26, 201, 71>> -> "Sell"

\* the texts of the elements of an address array, in their order
TextsOf(array) == [i \in 1..Len(array.data) |-> to_string(array.data[i])]

\* the path a well-formed call of one of the four selectors stands for: empty for
\* Deposit and Withdraw, argument 1 for Buy, argument 2 for Sell
PathOfCall(abi) ==
    CASE TypeOfSelector(abi.function) = "Buy" -> TextsOf(At(abi.b.data, 1))
      [] TypeOfSelector(abi.function) = "Sell" -> TextsOf(At(abi.b.data, 2))
      [] OTHER -> <<>>

\* C25: each of the four selectors stands for one SwapType: a push of a well-formed
\* call that returns leaves an entry of that type and adds no other; a Deposit or a
\* Withdraw entry has the empty path, whatever the arguments; a Buy entry made by the
\* push has the elements of argument 1 as its path and a Sell entry those of argument
\* 2, in their order.
C25_Classification ==
    (PushedKnown /\ ~PushedMalformed /\ ~pushed[1].panicked) =>
        LET ty == TypeOfSelector(pushed[1].abi.function) IN
        /\ Keys(inner) = Keys(pushed[1].before) \cup {ty}
        /\ ty \in {"Deposit", "Withdraw"} => PathsOf(inner, ty) = {<<>>}
        /\ ty \notin Keys(pushed[1].before) => PathsOf(inner, ty) = {PathOfCall(pushed[1].abi)}

\* a Sell call with the arguments (word, [A,B], [B,C]) was pushed on a SwapData holding
\* a Buy entry only: there is a Sell entry now, of path [B,C]
C25_Witness ==
    /\ PushedKnown
    /\ ~pushed[1].panicked
    /\ pushed[1].abi.function = SWAP_SELL
    /\ pushed[1].abi.b = AArray(<<AWord, PathAB, PathBC>>)
    /\ Keys(pushed[1].before) = {"Buy"}
    /\ Keys(inner) = {"Buy", "Sell"}
    /\ PathsOf(inner, "Sell") = {<<"B", "C">>}

\* the latest push was given a Deposit or a Withdraw call
PushedWrap ==
    /\ pushed # <<>>
    /\ pushed[1].abi.function \in {SWAP_DEPOSIT, SWAP_WITHDRAW}

\* C32: a push of a Deposit or a Withdraw call never fails, however many there were
\* and whatever was pushed between them: it returns, the entry of its type is there,
\* and the path of a Deposit or a Withdraw entry is the empty sequence at all times.
C32_WrapPushesNeverFail ==
    /\ PushedWrap =>
          /\ ~pushed[1].panicked
          /\ TypeOfSelector(pushed[1].abi.function) \in Keys(inner)
    /\ \A e \in inner :
          e.key \in {"Deposit", "Withdraw"} => e.value.path = <<>>

\* the third push is a Deposit call merged into the Deposit entry, with a Buy entry
\* of a path that is not empty beside it: the push returned and the path is empty
C32_Witness ==
    /\ PushedWrap
    /\ pushed[1].n = 3
    /\ pushed[1].abi.function = SWAP_DEPOSIT
    /\ ~pushed[1].panicked
    /\ "Deposit" \in Keys(pushed[1].before)
    /\ "Buy" \in Keys(pushed[1].before)
    /\ PathsOf(inner, "Buy") # {<<>>}
    /\ PathsOf(inner, "Deposit") = {<<>>}

\* C33: when push merges a call into the entry of its type, of that entry the path
\* alone changes: key, type and target are what they were, also when the call is to
\* another target, and the entries of the other types are what they were.
C33_MergeChangesPathOnly ==
    PushMerged =>
        LET ty == PushedNew.new.ty
            old == Entry(pushed[1].before, ty)
        IN
        /\ \E e \in inner :
              /\ e.key = old.key
              /\ e.value.ty = old.value.ty
              /\ e.value.target = old.value.target
              /\ inner \ {e} = pushed[1].before \ {old}
        /\ Cardinality(inner) = Cardinality(pushed[1].before)

\* a Buy call to another target than the one of the Buy entry was merged into it, with
\* a Deposit entry beside it: the path of the Buy entry is another, its target is not
C33_Witness ==
    /\ PushMerged
    /\ PushedNew.new.ty = "Buy"
    /\ "Deposit" \in Keys(pushed[1].before)
    /\ PushedNew.new.target # Entry(pushed[1].before, "Buy").value.target
    /\ Entry(inner, "Buy").value.target = Entry(pushed[1].before, "Buy").value.target
    /\ Entry(inner, "Buy").value.path # Entry(pushed[1].before, "Buy").value.path

====
